---- MODULE Spec2Model ----
(***************************************************************************)
(* A model of the beets "tagsanity" plugin (beetsplug/tagsanity.py).       *)
(*                                                                         *)
(* Text is a sequence of Unicode code points (naturals).  Records of the   *)
(* host (TrackInfo, AlbumInfo) are functions from attribute names to       *)
(* values; an attribute is present (hasattr) iff its name is in the        *)
(* DOMAIN.  A value is either a text or None.  Python dicts are sets of    *)
(* <<key, value>> pairs.                                                   *)
(***************************************************************************)
EXTENDS Integers, Sequences, FiniteSets, TLC

\* ------------------------------------------------------------------------
\* Bounds of the model
\* ------------------------------------------------------------------------
\* longest text handed to _process_string in the sanitizer specification
MaxLen == 3
\* largest number of tracks on a release handed to _albuminfo_received
MaxTracks == 2

\* ------------------------------------------------------------------------
\* Python values
\* ------------------------------------------------------------------------
\* Python's None, as a value no text equals (no code point is negative)
None == <<-1>>

\* isinstance(val, str)
IsStr(v) == v # None

\* the code points that occur in the model's texts
NUL == 0
TAB == 9
SP == 32
DQUOTE == 34
APOS == 39
LPAREN == 40
RPAREN == 41
COMMA == 44
HYPHEN == 45
DOT == 46
LT == 60
GT == 62
UpperM == 77
GRAVE == 96
LowerA == 97
LowerB == 98
LowerE == 101
LowerG == 103
LowerH == 104
LowerI == 105
LowerN == 110
LowerY == 121
LGUILLEMET == 171
ACUTE == 180
RGUILLEMET == 187
AGRAVE == 224
AACUTE == 225
COMBGRAVE == 768
COMBACUTE == 769
OGHAMSPACE == 5760
GREEKVARIA == 8175
LSQUOTE == 8216
RSQUOTE == 8217
LDQUOTE == 8220
RDQUOTE == 8221
HANGINGHYPHEN == 11802
HAN == 26126
FWLPAREN == 65288
FWRPAREN == 65289
NONCHAR == 65534

\* ------------------------------------------------------------------------
\* Unicode properties used by the regular expressions of _process_string
\* ------------------------------------------------------------------------
\* the code points of the model
CodePoints ==
    {NUL, TAB, SP, DQUOTE, APOS, LPAREN, RPAREN, COMMA, HYPHEN, DOT, LT, GT,
     UpperM, GRAVE, LowerA, LowerB, LowerE, LowerG, LowerH, LowerI, LowerN,
     LowerY, LGUILLEMET, ACUTE, RGUILLEMET, AGRAVE, AACUTE, COMBGRAVE,
     COMBACUTE, OGHAMSPACE, GREEKVARIA, LSQUOTE, RSQUOTE, LDQUOTE,
     RDQUOTE, HANGINGHYPHEN, HAN, FWLPAREN, FWRPAREN, NONCHAR}

\* the Unicode general category of each code point of the model
CatTable ==
    [c \in CodePoints |->
        CASE c \in {NUL, TAB} -> "Cc"
          [] c \in {SP, OGHAMSPACE} -> "Zs"
          [] c \in {DQUOTE, APOS, COMMA, DOT} -> "Po"
          [] c \in {LPAREN, FWLPAREN} -> "Ps"
          [] c \in {RPAREN, FWRPAREN} -> "Pe"
          [] c \in {HYPHEN, HANGINGHYPHEN} -> "Pd"
          [] c \in {LT, GT} -> "Sm"
          [] c \in {UpperM} -> "Lu"
          [] c \in {LowerA, LowerB, LowerE, LowerG, LowerH, LowerI, LowerN,
                    LowerY, AGRAVE, AACUTE} -> "Ll"
          [] c \in {GRAVE, ACUTE, GREEKVARIA} -> "Sk"
          [] c \in {LGUILLEMET, LSQUOTE, LDQUOTE} -> "Pi"
          [] c \in {RGUILLEMET, RSQUOTE, RDQUOTE} -> "Pf"
          [] c \in {COMBGRAVE, COMBACUTE} -> "Mn"
          [] c \in {HAN} -> "Lo"
          [] c \in {NONCHAR} -> "Cn"]

Cat(c) == CatTable[c]

\* \p{Z}
IsZ(c) == Cat(c) \in {"Zs", "Zl", "Zp"}
\* \p{C}
IsC(c) == Cat(c) \in {"Cc", "Cf", "Cs", "Co", "Cn"}
\* \p{L}
IsL(c) == Cat(c) \in {"Lu", "Ll", "Lt", "Lm", "Lo"}
\* \s of the regex module and str.isspace(): the separators and the
\* whitespace control characters
IsSpace(c) == IsZ(c) \/ c = TAB

\* ------------------------------------------------------------------------
\* Text primitives
\* ------------------------------------------------------------------------
RECURSIVE SubClass(_, _, _)
\* regex.sub(class, repl, s) for a class of single characters, given as the
\* set of its code points: each character of the class is replaced by the
\* text repl, the others are kept
SubClass(s, class, repl) ==
    IF s = <<>> THEN <<>>
    ELSE (IF Head(s) \in class THEN repl ELSE <<Head(s)>>)
         \o SubClass(Tail(s), class, repl)

RECURSIVE CollapseZ(_, _)
\* regex.sub(r"\p{Z}+", " ", s): inRun is TRUE while inside a run of
\* separators whose single space has already been written
CollapseZ(s, inRun) ==
    IF s = <<>> THEN <<>>
    ELSE IF IsZ(Head(s))
         THEN (IF inRun THEN <<>> ELSE <<SP>>) \o CollapseZ(Tail(s), TRUE)
         ELSE <<Head(s)>> \o CollapseZ(Tail(s), FALSE)

RECURSIVE LStrip(_)
LStrip(s) ==
    IF s # <<>> /\ IsSpace(Head(s)) THEN LStrip(Tail(s)) ELSE s

RECURSIVE RStrip(_)
RStrip(s) ==
    IF s # <<>> /\ IsSpace(s[Len(s)])
    THEN RStrip(SubSeq(s, 1, Len(s) - 1)) ELSE s

\* a trim that drops at most one whitespace character at each end
StripOnce(s) ==
    LET l == IF s # <<>> /\ IsSpace(Head(s)) THEN Tail(s) ELSE s
    IN  IF l # <<>> /\ IsSpace(l[Len(l)]) THEN SubSeq(l, 1, Len(l) - 1) ELSE l

\* a trim of the left end alone
StripLeft(s) == LStrip(s)

\* str.strip()
Strip(s) == RStrip(LStrip(s))

\* ------------------------------------------------------------------------
\* Collaborators of _process_string: unicodedata.normalize and Unidecoder
\* ------------------------------------------------------------------------
\* the decomposition of one code point: canonical in every form, and the
\* compatibility mappings in addition when compat is TRUE (NFKC, NFKD)
DecomposeChar(c, compat) ==
    CASE c = GREEKVARIA -> <<GRAVE>>
      [] c = AGRAVE -> <<LowerA, COMBGRAVE>>
      [] c = AACUTE -> <<LowerA, COMBACUTE>>
      [] compat /\ c = ACUTE -> <<SP, COMBACUTE>>
      [] compat /\ c = FWLPAREN -> <<LPAREN>>
      [] compat /\ c = FWRPAREN -> <<RPAREN>>
      [] OTHER -> <<c>>

RECURSIVE Decompose(_, _)
Decompose(s, compat) ==
    IF s = <<>> THEN <<>>
    ELSE DecomposeChar(Head(s), compat) \o Decompose(Tail(s), compat)

RECURSIVE Compose(_)
\* canonical composition: a starter and the combining mark right after it
\* (the model's two marks have the same combining class, so a later mark
\* is blocked and no reordering takes place)
Compose(s) ==
    IF Len(s) < 2 THEN s
    ELSE IF s[1] = LowerA /\ s[2] = COMBGRAVE
         THEN <<AGRAVE>> \o Compose(SubSeq(s, 3, Len(s)))
    ELSE IF s[1] = LowerA /\ s[2] = COMBACUTE
         THEN <<AACUTE>> \o Compose(SubSeq(s, 3, Len(s)))
    ELSE <<Head(s)>> \o Compose(Tail(s))

\* unicodedata.normalize(mode, s)
Normalize(mode, s) ==
    LET d == Decompose(s, mode \in {"NFKC", "NFKD"})
    IN  IF mode \in {"NFC", "NFKC"} THEN Compose(d) ELSE d

\* Unidecoder(lang).decode of one code point, as the tests record it: the
\* han character is spelled in the decoder's language and followed by a
\* space, fullwidth parentheses become ASCII ones, ASCII is kept
DecodeChar(lang, c) ==
    CASE c = HAN /\ lang = "ja" -> <<UpperM, LowerE, LowerI, SP>>
      [] c = HAN /\ lang = "kr" -> <<UpperM, LowerY, LowerE, LowerN, LowerG, SP>>
      [] c = HAN /\ lang = "vn" -> <<UpperM, LowerI, LowerN, LowerH, SP>>
      [] c = HAN /\ lang = "zh" -> <<UpperM, LowerI, LowerN, LowerG, SP>>
      [] c = FWLPAREN -> <<LPAREN>>
      [] c = FWRPAREN -> <<RPAREN>>
      [] OTHER -> <<c>>

RECURSIVE Decode(_, _)
\* decoder.decode(str)
Decode(lang, s) ==
    IF s = <<>> THEN <<>>
    ELSE DecodeChar(lang, Head(s)) \o Decode(lang, Tail(s))

\* ------------------------------------------------------------------------
\* _process_string
\* ------------------------------------------------------------------------
\* r"[`´‘’]"
SingleQuotes == {GRAVE, ACUTE, LSQUOTE, RSQUOTE}
\* r"[“”]"
DoubleQuotes == {LDQUOTE, RDQUOTE}
\* r"[\p{Pi}\p{Pf}]"
PiPfClass == {c \in CodePoints : Cat(c) \in {"Pi", "Pf"}}
\* r"\p{Pd}"
PdClass == {c \in CodePoints : Cat(c) = "Pd"}
\* r"\p{Ps}"
PsClass == {c \in CodePoints : Cat(c) = "Ps"}
\* r"\p{Pe}"
PeClass == {c \in CodePoints : Cat(c) = "Pe"}
\* r"\p{C}"
CClass == {c \in CodePoints : IsC(c)}

\* the simplify_whitespace stage
SimplifyWhitespace(s) == CollapseZ(s, FALSE)

\* the simplify_hyphens stage
SimplifyHyphens(s) == SubClass(s, PdClass, <<HYPHEN>>)

\* the simplify_curly_quotes stage: three substitutions in a row
SimplifyQuotes(s) ==
    SubClass(SubClass(SubClass(s, SingleQuotes, <<APOS>>),
                      DoubleQuotes, <<DQUOTE>>),
             PiPfClass, <<DQUOTE>>)

\* the simplify_brackets stage: left brackets first, then right brackets
\* (on the text that already holds the left replacement)
SimplifyBrackets(s, left, right) ==
    SubClass(SubClass(s, PsClass, left), PeClass, right)

RECURSIVE TidyCase(_)
\* regex.sub(r"(\p{Ll})(\p{Lu})", "\\1 \\2", s)
TidyCase(s) ==
    IF Len(s) < 2 THEN s
    ELSE IF Cat(s[1]) = "Ll" /\ Cat(s[2]) = "Lu"
         THEN <<s[1], SP, s[2]>> \o TidyCase(SubSeq(s, 3, Len(s)))
         ELSE <<Head(s)>> \o TidyCase(Tail(s))

\* the length of the whitespace run of s that starts at index i
RECURSIVE SpaceRun(_, _)
SpaceRun(s, i) ==
    IF i <= Len(s) /\ IsSpace(s[i]) THEN 1 + SpaceRun(s, i + 1) ELSE 0

RECURSIVE TidyPunct(_)
\* regex.sub(r"(\p{L})\s+([\p{Pe}\p{Pf}\p{Po}])|([\p{Ps}\p{Pi}])\s+(\p{L})",
\*           "\\1\\3\\2\\4", s)
TidyPunct(s) ==
    IF s = <<>> THEN <<>>
    ELSE LET n == SpaceRun(s, 2)
             after == 2 + n
             first == IsL(s[1]) /\ n > 0 /\ after <= Len(s)
                      /\ Cat(s[after]) \in {"Pe", "Pf", "Po"}
             second == Cat(s[1]) \in {"Ps", "Pi"} /\ n > 0 /\ after <= Len(s)
                       /\ IsL(s[after])
         IN  IF first \/ second
             THEN <<s[1], s[after]>> \o TidyPunct(SubSeq(s, after + 1, Len(s)))
             ELSE <<Head(s)>> \o TidyPunct(Tail(s))

\* the decoder value of "no decoder"
NoDecoder == [lang |-> "none"]

\* a _process_string that normalizes without deleting the other-characters
ProcessStringKeepOther(c, decoder, str) ==
    LET s1 == IF c.simplify_whitespace THEN SimplifyWhitespace(str) ELSE str
        s2 == IF c.simplify_hyphens THEN SimplifyHyphens(s1) ELSE s1
        s3 == IF c.simplify_curly_quotes THEN SimplifyQuotes(s2) ELSE s2
        s4 == IF c.simplify_brackets
              THEN SimplifyBrackets(s3, c.left_bracket, c.right_bracket)
              ELSE s3
        s5 == IF decoder # NoDecoder
              THEN LET d == Decode(decoder.lang, s4)
                   IN  IF c.tidy_unihandecode THEN TidyPunct(TidyCase(d)) ELSE d
              ELSE s4
        s6 == IF c.unicode_normalization_mode # "None"
              THEN Normalize(c.unicode_normalization_mode, s5)
              ELSE s5
    IN  Strip(s6)

\* a _process_string that tidies up before it transliterates
ProcessStringTidyFirst(c, decoder, str) ==
    LET s1 == IF c.simplify_whitespace THEN SimplifyWhitespace(str) ELSE str
        s2 == IF c.simplify_hyphens THEN SimplifyHyphens(s1) ELSE s1
        s3 == IF c.simplify_curly_quotes THEN SimplifyQuotes(s2) ELSE s2
        s4 == IF c.simplify_brackets
              THEN SimplifyBrackets(s3, c.left_bracket, c.right_bracket)
              ELSE s3
        s5 == IF decoder # NoDecoder
              THEN LET d == IF c.tidy_unihandecode
                            THEN TidyPunct(TidyCase(s4)) ELSE s4
                   IN  Decode(decoder.lang, d)
              ELSE s4
        s6 == IF c.unicode_normalization_mode # "None"
              THEN SubClass(Normalize(c.unicode_normalization_mode, s5), CClass, <<>>)
              ELSE s5
    IN  Strip(s6)

\* a _process_string whose tidy-up does not ask for a decoder
ProcessStringTidyAlways(c, decoder, str) ==
    LET s1 == IF c.simplify_whitespace THEN SimplifyWhitespace(str) ELSE str
        s2 == IF c.simplify_hyphens THEN SimplifyHyphens(s1) ELSE s1
        s3 == IF c.simplify_curly_quotes THEN SimplifyQuotes(s2) ELSE s2
        s4 == IF c.simplify_brackets
              THEN SimplifyBrackets(s3, c.left_bracket, c.right_bracket)
              ELSE s3
        d == IF decoder # NoDecoder THEN Decode(decoder.lang, s4) ELSE s4
        s5 == IF c.tidy_unihandecode THEN TidyPunct(TidyCase(d)) ELSE d
        s6 == IF c.unicode_normalization_mode # "None"
              THEN SubClass(Normalize(c.unicode_normalization_mode, s5), CClass, <<>>)
              ELSE s5
    IN  Strip(s6)

\* _process_string(decoder, str) under the settings c
ProcessString(c, decoder, str) ==
    LET s1 == IF c.simplify_whitespace THEN SimplifyWhitespace(str) ELSE str
        s2 == IF c.simplify_hyphens THEN SimplifyHyphens(s1) ELSE s1
        s3 == IF c.simplify_curly_quotes THEN SimplifyQuotes(s2) ELSE s2
        s4 == IF c.simplify_brackets
              THEN SimplifyBrackets(s3, c.left_bracket, c.right_bracket)
              ELSE s3
        s5 == IF decoder # NoDecoder
              THEN LET d == Decode(decoder.lang, s4)
                   IN  IF c.tidy_unihandecode THEN TidyPunct(TidyCase(d)) ELSE d
              ELSE s4
        s6 == IF c.unicode_normalization_mode # "None"
              THEN SubClass(Normalize(c.unicode_normalization_mode, s5), CClass, <<>>)
              ELSE s5
    IN  Strip(s6)

\* ------------------------------------------------------------------------
\* Configuration and _get_decoder
\* ------------------------------------------------------------------------
\* Python's None where a string is expected (an identifier, a code)
NoValue == "<None>"

\* the truth value of an optional string: None and "" are false
Truthy(x) == x \notin {NoValue, ""}

AVAILABLE_LANG_CODES == {"ja", "kr", "vn", "zh"}

VALID_NORMALIZE_MODES == {"NFC", "NFKC", "NFD", "NFKD", "None"}

JaCodes == {"Hrkt", "Kana", "Hira", "Jpan", "ja", "jpn", "jp"}
KrCodes == {"Hang", "Kore", "ko", "kor", "kr"}
VnCodes == {"vi", "vie", "vn", "vnm"}
ZhCodes == {"Hans", "Hant", "zh", "zho", "cdo", "cjy", "cmn", "cnp", "cpi",
            "csp", "czh", "czo", "cn", "chn"}

\* a table in which the simplified han script follows the preference too
LangMapHans(han_preference) ==
    [code \in {"Hani"} \cup JaCodes \cup KrCodes \cup VnCodes \cup ZhCodes |->
        CASE code \in {"Hani", "Hans"} -> han_preference
          [] code \in JaCodes -> "ja"
          [] code \in KrCodes -> "kr"
          [] code \in VnCodes -> "vn"
          [] OTHER -> "zh"]

\* self.lang_map, as setup() builds it from han_preference
LangMap(han_preference) ==
    [code \in {"Hani"} \cup JaCodes \cup KrCodes \cup VnCodes \cup ZhCodes |->
        CASE code = "Hani" -> han_preference
          [] code \in JaCodes -> "ja"
          [] code \in KrCodes -> "kr"
          [] code \in VnCodes -> "vn"
          [] code \in ZhCodes -> "zh"]

\* CONFIG_DEFAULT
ConfigDefault ==
    [langs_enabled |-> AVAILABLE_LANG_CODES,
     tidy_unihandecode |-> TRUE,
     drop_feats_from_fields |-> <<"artist", "artist_sort", "title">>,
     simplify_whitespace |-> TRUE,
     simplify_hyphens |-> TRUE,
     simplify_curly_quotes |-> TRUE,
     simplify_brackets |-> TRUE,
     left_bracket |-> <<LPAREN>>,
     right_bracket |-> <<RPAREN>>,
     unicode_normalization_mode |-> "NFC",
     process_fields |-> <<"arranger", "artist_credit", "artist", "artist_sort",
                          "composer", "composer_sort", "disctitle", "lyricist",
                          "title", "work", "work_disambig">>,
     han_preference |-> "zh"]

\* a resolver that falls back to the script when the language's target is
\* not enabled
GetDecoderFallback(c, lang, script) ==
    LET lang_map == LangMap(c.han_preference)
        byLang == IF Truthy(lang) /\ lang \in DOMAIN lang_map
                  THEN lang_map[lang] ELSE NoValue
        byScript == IF Truthy(script) /\ script \in DOMAIN lang_map
                    THEN lang_map[script] ELSE NoValue
    IN  IF byLang \in c.langs_enabled THEN [lang |-> byLang]
        ELSE IF byScript \in c.langs_enabled THEN [lang |-> byScript]
        ELSE NoDecoder

\* _get_decoder(lang, script)
GetDecoder(c, lang, script) ==
    LET lang_map == LangMap(c.han_preference)
        mapped_lang ==
            IF Truthy(lang) /\ lang \in DOMAIN lang_map THEN lang_map[lang]
            ELSE IF Truthy(script) /\ script \in DOMAIN lang_map
                 THEN lang_map[script]
                 ELSE NoValue
    IN  IF mapped_lang \in c.langs_enabled
        THEN [lang |-> mapped_lang]
        ELSE NoDecoder

\* ------------------------------------------------------------------------
\* Python dicts as sets of <<key, value>> pairs
\* ------------------------------------------------------------------------
\* key in d
DictHas(d, k) == \E p \in d : p[1] = k
\* d[key]
DictGet(d, k) == (CHOOSE p \in d : p[1] = k)[2]
\* an assignment that keeps what was stored under the key before
DictAdd(d, k, v) == d \cup {<<k, v>>}
\* d[key] = value
DictSet(d, k, v) == {p \in d : p[1] # k} \cup {<<k, v>>}
\* a pop that reads the entry and leaves it in the dict
DictPeek(d, k) == d
\* a pop that empties the dict
DictClear(d, k) == {}

\* d.pop(key): the dict without the key
DictPop(d, k) == {p \in d : p[1] # k}

\* ------------------------------------------------------------------------
\* _process_object
\* ------------------------------------------------------------------------
RECURSIVE ProcessFields(_, _, _, _)
\* the loop of _process_object from the k-th configured field on
ProcessFields(c, decoder, obj, k) ==
    IF k > Len(c.process_fields) THEN obj
    ELSE LET field == c.process_fields[k]
         IN  IF field \in DOMAIN obj /\ IsStr(obj[field])
             THEN LET clean == ProcessString(c, decoder, obj[field])
                  IN  ProcessFields(c, decoder,
                                    IF clean # obj[field]
                                    THEN [obj EXCEPT ![field] = clean]
                                    ELSE obj,
                                    k + 1)
             ELSE ProcessFields(c, decoder, obj, k + 1)

RECURSIVE WrittenFieldsAlways(_, _, _, _)
\* a loop that sets every configured string attribute, changed or not
WrittenFieldsAlways(c, decoder, obj, k) ==
    IF k > Len(c.process_fields) THEN <<>>
    ELSE LET field == c.process_fields[k]
         IN  IF field \in DOMAIN obj /\ IsStr(obj[field])
             THEN <<field>> \o WrittenFieldsAlways(c, decoder, obj, k + 1)
             ELSE WrittenFieldsAlways(c, decoder, obj, k + 1)

RECURSIVE WrittenFields(_, _, _, _)
\* the attributes the loop of _process_object sets (setattr) from the k-th
\* configured field on, in the order it sets them
WrittenFields(c, decoder, obj, k) ==
    IF k > Len(c.process_fields) THEN <<>>
    ELSE LET field == c.process_fields[k]
         IN  IF field \in DOMAIN obj /\ IsStr(obj[field])
             THEN LET clean == ProcessString(c, decoder, obj[field])
                  IN  IF clean # obj[field]
                      THEN <<field>> \o WrittenFields(c, decoder, obj, k + 1)
                      ELSE WrittenFields(c, decoder, obj, k + 1)
             ELSE WrittenFields(c, decoder, obj, k + 1)

\* _process_object(decoder, obj)
ProcessObject(c, decoder, obj) == ProcessFields(c, decoder, obj, 1)

\* ------------------------------------------------------------------------
\* _scrub_track_feats
\* ------------------------------------------------------------------------
RECURSIVE SplitFrom(_, _, _, _)
\* str.split(sep) from index i on, cur being the piece collected so far
SplitFrom(s, sep, i, cur) ==
    IF i > Len(s) THEN <<cur>>
    ELSE IF i + Len(sep) - 1 <= Len(s) /\ SubSeq(s, i, i + Len(sep) - 1) = sep
         THEN <<cur>> \o SplitFrom(s, sep, i + Len(sep), <<>>)
         ELSE SplitFrom(s, sep, i + 1, Append(cur, s[i]))

\* val.split(sep), sep not empty
Split(s, sep) == SplitFrom(s, sep, 1, <<>>)

\* val.split(join_phrase)[0]
Truncate(val, join_phrase) == Split(val, join_phrase)[1]

RECURSIVE ScrubFields(_, _, _, _)
\* the loop of _scrub_track_feats from the k-th configured field on; a
\* value that is no string has no split and the loop ends in an
\* AttributeError, the fields handled so far staying truncated
ScrubFields(keys, info, join_phrase, k) ==
    IF k > Len(keys) THEN [info |-> info, raised |-> FALSE]
    ELSE IF keys[k] \notin DOMAIN info
         THEN ScrubFields(keys, info, join_phrase, k + 1)
    ELSE IF ~IsStr(info[keys[k]])
         THEN [info |-> info, raised |-> TRUE]
    ELSE ScrubFields(keys,
                     [info EXCEPT ![keys[k]] = Truncate(@, join_phrase)],
                     join_phrase, k + 1)

\* a scrub that truncates at the phrase "." when the table has no entry
ScrubTrackFeatsDefault(c, table, info) ==
    LET join_phrase == IF DictHas(table, info.track_id)
                       THEN DictGet(table, info.track_id) ELSE <<DOT>>
        r == ScrubFields(c.drop_feats_from_fields, info, join_phrase, 1)
    IN  [info |-> r.info,
         table |-> DictPop(table, info.track_id),
         raised |-> r.raised]

\* _scrub_track_feats(info): the track, the table and whether it raised
ScrubTrackFeats(c, table, info) ==
    IF DictHas(table, info.track_id)
    THEN LET join_phrase == DictGet(table, info.track_id)
             r == ScrubFields(c.drop_feats_from_fields, info, join_phrase, 1)
         IN  [info |-> r.info,
              table |-> DictPop(table, info.track_id),
              raised |-> r.raised]
    ELSE [info |-> info, table |-> table, raised |-> FALSE]

\* ------------------------------------------------------------------------
\* _mb_track_extract
\* ------------------------------------------------------------------------
\* isinstance(x, str) for an element of an artist-credit sequence: the
\* elements are records [isStr, s], s being the join phrase of a plain
\* string and the artist's name of a structured credit
IsJoinPhrase(x) == x.isStr

\* a capture that stores the first string whatever it is
CaptureUnchecked(table, data) ==
    IF "artist-credit" \notin DOMAIN data THEN table
    ELSE LET strs == SelectSeq(data["artist-credit"], IsJoinPhrase)
         IN  IF strs = <<>> THEN table
             ELSE IF "id" \in DOMAIN data
                  THEN DictSet(table, data["id"], strs[1].s)
                  ELSE table

\* a capture that files the phrase under None when the payload has no id
CaptureNoId(table, data) ==
    IF "artist-credit" \notin DOMAIN data THEN table
    ELSE LET strs == SelectSeq(data["artist-credit"], IsJoinPhrase)
         IN  IF strs = <<>> THEN table
             ELSE IF strs[1].s # <<>>
                  THEN DictSet(table,
                               IF "id" \in DOMAIN data THEN data["id"] ELSE NoValue,
                               strs[1].s)
                  ELSE table

\* the table after _mb_track_extract(data): a missing "artist-credit" or
\* "id" key (KeyError) and a sequence without a string (StopIteration) are
\* caught and leave the table as it was
Capture(table, data) ==
    IF "artist-credit" \notin DOMAIN data THEN table
    ELSE LET strs == SelectSeq(data["artist-credit"], IsJoinPhrase)
         IN  IF strs = <<>> THEN table
             ELSE IF strs[1].s # <<>>
                  THEN IF "id" \in DOMAIN data
                       THEN DictSet(table, data["id"], strs[1].s)
                       ELSE table
                  ELSE table

\* ------------------------------------------------------------------------
\* _albuminfo_received: the loop over info.tracks
\* ------------------------------------------------------------------------
RECURSIVE ProcessTracks(_, _, _, _, _)
\* the loop from the i-th track on: the tracks, the table and whether a
\* scrub raised (which ends the handler where it stands)
ProcessTracks(c, dec, table, ts, i) ==
    IF i > Len(ts) THEN [tracks |-> ts, table |-> table, raised |-> FALSE]
    ELSE LET r == IF c.drop_feats_from_fields # <<>>
                  THEN ScrubTrackFeats(c, table, ts[i])
                  ELSE [info |-> ts[i], table |-> table, raised |-> FALSE]
         IN  IF r.raised
             THEN [tracks |-> [ts EXCEPT ![i] = r.info],
                   table |-> r.table, raised |-> TRUE]
             ELSE ProcessTracks(c, dec, r.table,
                                [ts EXCEPT ![i] = ProcessObject(c, dec, r.info)],
                                i + 1)

RECURSIVE TrackWrites(_, _, _, _, _)
\* the attributes the loop sets by _process_object from the i-th track on,
\* track by track (a track is processed as its scrub left it; after a scrub
\* that raised no track is processed)
TrackWrites(c, dec, table, ts, i) ==
    IF i > Len(ts) THEN <<>>
    ELSE LET r == IF c.drop_feats_from_fields # <<>>
                  THEN ScrubTrackFeats(c, table, ts[i])
                  ELSE [info |-> ts[i], table |-> table, raised |-> FALSE]
         IN  IF r.raised THEN <<>>
             ELSE <<WrittenFields(c, dec, r.info, 1)>>
                  \o TrackWrites(c, dec, r.table, ts, i + 1)

\* ------------------------------------------------------------------------
\* Inputs of the model
\* ------------------------------------------------------------------------
\* "a.b", "a.b.a", "b.a", "ab", "a<han>"; "." stands for the join phrase
TextAB == <<LowerA, DOT, LowerB>>
TextABA == <<LowerA, DOT, LowerB, DOT, LowerA>>
TextBA == <<LowerB, DOT, LowerA>>
TextPlain == <<LowerA, LowerB>>
TextHan == <<LowerA, HAN>>

\* the recording identifiers
TrackIds == {"t1", "t2"}

\* the value of TrackInfo.index of a track that is part of no release
NoIndex == -1

\* the track records handed to the plugin
TrackInfos ==
    { [track_id |-> "t1", index |-> 1, artist |-> TextABA,
       artist_sort |-> TextBA, title |-> TextAB],
      [track_id |-> "t1", index |-> NoIndex, artist |-> TextAB,
       artist_sort |-> None, title |-> TextAB],
      [track_id |-> "t2", index |-> 1, artist |-> TextPlain, title |-> TextHan],
      [track_id |-> NoValue, index |-> NoIndex, artist |-> TextAB,
       title |-> None] }

\* the sequences of at most n elements of S
SeqsUpTo(S, n) == UNION {[1..k -> S] : k \in 0..n}

\* the release records handed to the plugin, without their tracks
AlbumInfos ==
    { [album_id |-> "r1", artist |-> TextAB, album |-> TextHan,
       language |-> "jpn", script |-> "Jpan"],
      [album_id |-> "r1", artist |-> TextAB, album |-> TextHan,
       language |-> NoValue, script |-> NoValue] }

\* a structured artist credit and a plain join phrase
Credit(name) == [isStr |-> FALSE, s |-> name]
Phrase(p) == [isStr |-> TRUE, s |-> p]

\* the payloads of the mb_track_extract event
TrackPayloads ==
    { ("id" :> "t1") @@ ("artist-credit" :>
          <<Credit(<<LowerA>>), Phrase(<<DOT>>), Credit(<<LowerB>>)>>),
      ("id" :> "t1") @@ ("artist-credit" :>
          <<Credit(<<LowerA>>), Phrase(<<LowerB, DOT>>), Credit(<<LowerA>>),
            Phrase(<<DOT>>)>>),
      ("id" :> "t2") @@ ("artist-credit" :>
          <<Phrase(<<DOT>>), Credit(<<LowerB>>)>>),
      ("artist-credit" :> <<Credit(<<LowerA>>), Phrase(<<DOT>>)>>),
      ("id" :> "t1"),
      ("id" :> "t1") @@ ("artist-credit" :> <<Credit(<<LowerA>>)>>),
      ("id" :> "t2") @@ ("artist-credit" :> <<>>),
      ("id" :> "t1") @@ ("artist-credit" :>
          <<Credit(<<LowerA>>), Phrase(<<>>), Phrase(<<DOT>>)>>) }

\* the payloads of the mb_album_extract event
AlbumPayloads ==
    { ("id" :> "r1") @@ ("artist-credit" :>
          <<Credit(<<LowerA>>), Phrase(<<DOT>>), Credit(<<LowerB>>)>>) }

\* the configurations of the event specification
Configs ==
    { [ConfigDefault EXCEPT !.drop_feats_from_fields = d] :
        d \in {<<>>, <<"artist">>, <<"artist", "artist_sort", "title">>} }

\* ------------------------------------------------------------------------
\* State
\* ------------------------------------------------------------------------
VARIABLES
    cfg,                \* the validated configuration read by setup()
    track_join_phrases, \* self.track_join_phrases
    pending_tracks,     \* self.pending_tracks
    info,               \* the release record of the running event, as the
                        \* handler left it
    tracks,             \* the track records of the running event, as the
                        \* handler left them
    decoder,            \* the decoder the event or call resolved
    str,                \* the text the _process_string call returned
    arg,                \* the arguments of the event or call
    ev,                 \* the event or call: its name, whether it raised,
                        \* and the phrase the table held for the identifier
                        \* it is about when it began (None: no entry)
    consumed,           \* history: the identifiers whose entry a scrub has
                        \* popped and no capture has stored again since
    album_extracts,     \* history: the payloads of the mb_album_extract
                        \* events delivered so far
    written             \* history: the attributes the _process_object
                        \* calls of the running event have set, for the
                        \* release record and for each track

vars == <<cfg, track_join_phrases, pending_tracks, info, tracks, decoder, str,
          arg, ev, consumed, album_extracts, written>>

\* the value of "no record"
NoRecord == [none |-> TRUE]

\* the arguments of "no call"
NoArg == [info |-> NoRecord, tracks |-> <<>>, data |-> NoRecord,
          lang |-> NoValue, script |-> NoValue, str |-> <<>>]

\* no attribute set
NoWrites == [info |-> <<>>, tracks |-> <<>>]

\* the host between two events: no handler runs, no record is held
Idle == [op |-> "idle", raised |-> FALSE, old |-> None]

\* the keys of a dict
Keys(d) == {p[1] : p \in d}

\* d.get(key): the value under the key, None without one
Lookup(d, k) == IF DictHas(d, k) THEN DictGet(d, k) ELSE None

\* the state after __init__ and setup(), the configuration read, with the
\* arguments a of the first call
InitWith(c, a) ==
    /\ cfg = c
    /\ track_join_phrases = {}
    /\ pending_tracks = {}
    /\ info = NoRecord
    /\ tracks = <<>>
    /\ decoder = NoDecoder
    /\ str = <<>>
    /\ arg = a
    /\ ev = Idle
    /\ consumed = {}
    /\ album_extracts = {}
    /\ written = NoWrites

Init == \E c \in Configs : InitWith(c, NoArg)

\* ------------------------------------------------------------------------
\* The event handlers (events are dispatched one at a time: a handler runs
\* from the idle host and runs to its end)
\* ------------------------------------------------------------------------
\* the mb_track_extract event
MbTrackExtract ==
    \E data \in TrackPayloads :
        /\ ev = Idle
        /\ track_join_phrases' = Capture(track_join_phrases, data)
        /\ consumed' = consumed \ Keys(track_join_phrases' \ track_join_phrases)
        /\ arg' = [NoArg EXCEPT !.data = data]
        /\ ev' = [op |-> "mb_track_extract", raised |-> FALSE,
                  old |-> IF "id" \in DOMAIN data
                          THEN Lookup(track_join_phrases, data["id"])
                          ELSE None]
        /\ UNCHANGED <<cfg, pending_tracks, info, tracks, decoder, str,
                       album_extracts, written>>

\* the mb_album_extract event: setup() registers no listener for it, so no
\* handler runs
MbAlbumExtract ==
    \E data \in AlbumPayloads :
        /\ ev = Idle
        /\ album_extracts' = album_extracts \cup {data}
        /\ arg' = [NoArg EXCEPT !.data = data]
        /\ ev' = [op |-> "mb_album_extract", raised |-> FALSE, old |-> None]
        /\ UNCHANGED <<cfg, track_join_phrases, pending_tracks, info, tracks,
                       decoder, str, consumed, written>>

\* a trackinfo_received handler that scrubs the track it is handed
TrackinfoReceivedScrubs ==
    \E t \in TrackInfos :
        LET r == ScrubTrackFeats(cfg, track_join_phrases, t)
        IN  /\ ev = Idle
            /\ pending_tracks' =
                  IF t.index # NoIndex THEN pending_tracks
                  ELSE IF Truthy(t.track_id)
                       THEN DictSet(pending_tracks, t.track_id, r.info)
                       ELSE pending_tracks
            /\ track_join_phrases' = r.table
            /\ arg' = [NoArg EXCEPT !.tracks = <<t>>]
            /\ tracks' = <<r.info>>
            /\ ev' = [op |-> "trackinfo_received", raised |-> r.raised,
                      old |-> Lookup(track_join_phrases, t.track_id)]
            /\ UNCHANGED <<cfg, info, decoder, str, consumed, album_extracts,
                           written>>

\* the trackinfo_received event
TrackinfoReceived ==
    \E t \in TrackInfos :
        /\ ev = Idle
        /\ pending_tracks' =
              IF t.index # NoIndex THEN pending_tracks
              ELSE IF Truthy(t.track_id)
                   THEN DictSet(pending_tracks, t.track_id, t)
                   ELSE pending_tracks
        /\ arg' = [NoArg EXCEPT !.tracks = <<t>>]
        /\ tracks' = <<t>>
        /\ ev' = [op |-> "trackinfo_received", raised |-> FALSE,
                  old |-> Lookup(track_join_phrases, t.track_id)]
        /\ UNCHANGED <<cfg, track_join_phrases, info, decoder, str, consumed,
                       album_extracts, written>>

\* the albuminfo_received event: the release record a with the tracks ts;
\* an error raised by a scrub leaves the rest of the handler undone
AlbuminfoReceived ==
    \E a \in AlbumInfos, ts \in SeqsUpTo(TrackInfos, MaxTracks) :
        LET dec == GetDecoder(cfg, a.language, a.script)
            r == ProcessTracks(cfg, dec, track_join_phrases, ts, 1)
        IN  /\ ev = Idle
            /\ decoder' = dec
            /\ tracks' = r.tracks
            /\ track_join_phrases' = r.table
            /\ info' = IF r.raised THEN a ELSE ProcessObject(cfg, dec, a)
            /\ consumed' = consumed \cup (Keys(track_join_phrases) \ Keys(r.table))
            /\ arg' = [NoArg EXCEPT !.info = a, !.tracks = ts]
            /\ ev' = [op |-> "albuminfo_received", raised |-> r.raised,
                      old |-> None]
            /\ written' = [info |-> IF r.raised THEN <<>>
                                     ELSE WrittenFields(cfg, dec, a, 1),
                            tracks |-> TrackWrites(cfg, dec, track_join_phrases,
                                                   ts, 1)]
            /\ UNCHANGED <<cfg, pending_tracks, str, album_extracts>>

\* a call of _scrub_track_feats(t) by itself
ScrubCall ==
    \E t \in TrackInfos :
        LET r == ScrubTrackFeats(cfg, track_join_phrases, t)
        IN  /\ ev = Idle
            /\ tracks' = <<r.info>>
            /\ track_join_phrases' = r.table
            /\ consumed' = consumed \cup (Keys(track_join_phrases) \ Keys(r.table))
            /\ arg' = [NoArg EXCEPT !.tracks = <<t>>]
            /\ ev' = [op |-> "scrub", raised |-> r.raised,
                      old |-> Lookup(track_join_phrases, t.track_id)]
            /\ UNCHANGED <<cfg, pending_tracks, info, decoder, str,
                           album_extracts, written>>

\* the handler has returned (or raised) to the host, which holds the
\* records from here on; the plugin keeps its dicts
Return ==
    /\ ev # Idle
    /\ ev' = Idle
    /\ arg' = NoArg
    /\ info' = NoRecord
    /\ tracks' = <<>>
    /\ decoder' = NoDecoder
    /\ written' = NoWrites
    /\ UNCHANGED <<cfg, track_join_phrases, pending_tracks, str, consumed,
                   album_extracts>>

Next ==
    \/ MbTrackExtract
    \/ MbAlbumExtract
    \/ TrackinfoReceived
    \/ AlbuminfoReceived
    \/ ScrubCall
    \/ Return

Spec == Init /\ [][Next]_vars

\* ------------------------------------------------------------------------
\* _get_decoder by itself: every configuration of the enabled languages and
\* the han preference, every pair of codes
\* ------------------------------------------------------------------------
\* the codes handed to _get_decoder: the recognized ones, the absent and the
\* empty one, an unrecognized language and an unrecognized script
CodeInputs == DOMAIN LangMap("zh") \cup {NoValue, "", "eng", "Latn"}

DecoderConfigs ==
    { [ConfigDefault EXCEPT !.langs_enabled = e, !.han_preference = h] :
        e \in SUBSET AVAILABLE_LANG_CODES, h \in AVAILABLE_LANG_CODES }

InitDecoder ==
    \E c \in DecoderConfigs, l \in CodeInputs, s \in CodeInputs :
        InitWith(c, [NoArg EXCEPT !.lang = l, !.script = s])

\* a call of _get_decoder(lang, script)
GetDecoderCall ==
    /\ ev = Idle
    /\ decoder' = GetDecoder(cfg, arg.lang, arg.script)
    /\ ev' = [op |-> "get_decoder", raised |-> FALSE, old |-> None]
    /\ UNCHANGED <<cfg, track_join_phrases, pending_tracks, info, tracks, str,
                   arg, consumed, album_extracts, written>>

NextDecoder == GetDecoderCall

SpecDecoder == InitDecoder /\ [][NextDecoder]_vars

\* ------------------------------------------------------------------------
\* _process_string by itself, without a decoder
\* ------------------------------------------------------------------------
\* the code points of the texts
SanChars == {TAB, SP, OGHAMSPACE, HANGINGHYPHEN, LSQUOTE, LGUILLEMET,
             GREEKVARIA, FWLPAREN, RPAREN, LowerA, NONCHAR}

\* the texts handed to _process_string
SanTexts == SeqsUpTo(SanChars, MaxLen)

\* the four cleanup toggles: none, each one alone, all
SanToggles ==
    {<<FALSE, FALSE, FALSE, FALSE>>, <<TRUE, FALSE, FALSE, FALSE>>,
     <<FALSE, TRUE, FALSE, FALSE>>, <<FALSE, FALSE, TRUE, FALSE>>,
     <<FALSE, FALSE, FALSE, TRUE>>, <<TRUE, TRUE, TRUE, TRUE>>}

\* the bracket strings: the defaults, ">" and "<", "((" and ")", and the
\* defaults the other way round, ")" and "("
SanBrackets ==
    {<<<<LPAREN>>, <<RPAREN>>>>, <<<<GT>>, <<LT>>>>,
     <<<<LPAREN, LPAREN>>, <<RPAREN>>>>, <<<<RPAREN>>, <<LPAREN>>>>}

SanConfigs ==
    { [ConfigDefault EXCEPT !.simplify_whitespace = t[1],
                            !.simplify_hyphens = t[2],
                            !.simplify_curly_quotes = t[3],
                            !.simplify_brackets = t[4],
                            !.left_bracket = b[1],
                            !.right_bracket = b[2],
                            !.unicode_normalization_mode = m] :
        t \in SanToggles, b \in SanBrackets, m \in {"None", "NFC", "NFKC"} }

InitSan ==
    \E c \in SanConfigs, t \in SanTexts :
        InitWith(c, [NoArg EXCEPT !.str = t])

\* a call of _process_string(None, text)
ProcessStringCall ==
    /\ ev = Idle
    /\ str' = ProcessString(cfg, decoder, arg.str)
    /\ ev' = [op |-> "process_string", raised |-> FALSE, old |-> None]
    /\ UNCHANGED <<cfg, track_join_phrases, pending_tracks, info, tracks,
                   decoder, arg, consumed, album_extracts, written>>

\* a second call, on the text the first call returned (arg keeps the text
\* of the first call)
ProcessStringAgain ==
    /\ ev.op = "process_string"
    /\ str' = ProcessString(cfg, decoder, str)
    /\ ev' = [op |-> "process_string_again", raised |-> FALSE, old |-> None]
    /\ UNCHANGED <<cfg, track_join_phrases, pending_tracks, info, tracks,
                   decoder, arg, consumed, album_extracts, written>>

NextSan ==
    \/ ProcessStringCall
    \/ ProcessStringAgain

SpecSan == InitSan /\ [][NextSan]_vars

\* ------------------------------------------------------------------------
\* _process_string by itself, with and without a decoder
\* ------------------------------------------------------------------------
\* the code points of the texts handed over with a decoder
TranslitChars == {TAB, SP, HAN, FWLPAREN, RPAREN, COMMA, LowerA, UpperM,
                  HANGINGHYPHEN, LSQUOTE, NONCHAR}

TranslitTexts == SeqsUpTo(TranslitChars, MaxLen)

\* no decoder, and the decoders of two of the languages
TranslitDecoders == {NoDecoder, [lang |-> "ja"], [lang |-> "zh"]}

\* the four cleanup toggles all off or all on, the tidy toggle, the default
\* brackets or ">" and "<", no normalization or NFKC
TranslitConfigs ==
    { [ConfigDefault EXCEPT !.simplify_whitespace = t,
                            !.simplify_hyphens = t,
                            !.simplify_curly_quotes = t,
                            !.simplify_brackets = t,
                            !.tidy_unihandecode = y,
                            !.left_bracket = b[1],
                            !.right_bracket = b[2],
                            !.unicode_normalization_mode = m] :
        t \in BOOLEAN, y \in BOOLEAN,
        b \in {<<<<LPAREN>>, <<RPAREN>>>>, <<<<GT>>, <<LT>>>>},
        m \in {"None", "NFKC"} }

InitTranslit ==
    \E c \in TranslitConfigs, d \in TranslitDecoders, t \in TranslitTexts :
        /\ cfg = c
        /\ track_join_phrases = {}
        /\ pending_tracks = {}
        /\ info = NoRecord
        /\ tracks = <<>>
        /\ decoder = d
        /\ str = <<>>
        /\ arg = [NoArg EXCEPT !.str = t]
        /\ ev = Idle
        /\ consumed = {}
        /\ album_extracts = {}
        /\ written = NoWrites

NextTranslit == ProcessStringCall

SpecTranslit == InitTranslit /\ [][NextTranslit]_vars

\* ------------------------------------------------------------------------
\* Reference definitions of the properties
\* ------------------------------------------------------------------------
\* the attributes of the model's records that hold a text or None
TextFields == {"artist", "artist_sort", "title", "album"}

\* the elements of a sequence
Range(q) == {q[i] : i \in 1..Len(q)}

\* the indices at which p occurs in v
Occurrences(v, p) ==
    {i \in 1..(Len(v) - Len(p) + 1) : SubSeq(v, i, i + Len(p) - 1) = p}

\* the text of v before the first occurrence of p; v when p does not occur
PrefixBefore(v, p) ==
    IF Occurrences(v, p) = {} THEN v
    ELSE LET first == CHOOSE i \in Occurrences(v, p) :
                          \A j \in Occurrences(v, p) : i <= j
         IN  SubSeq(v, 1, first - 1)

\* record t with every text attribute named in keys cut before phrase p
Truncated(t, keys, p) ==
    [f \in DOMAIN t |->
        IF f \in TextFields /\ f \in Range(keys) /\ IsStr(t[f])
        THEN PrefixBefore(t[f], p) ELSE t[f]]

\* the table holds at most one phrase for an identifier
AtMostOnePhrase(table) == \A p, q \in table : p[1] = q[1] => p = q

\* the join phrases of a payload: the plain strings of its credit sequence
PhrasesOf(data) ==
    IF "artist-credit" \in DOMAIN data
    THEN SelectSeq(data["artist-credit"], IsJoinPhrase)
    ELSE <<>>

\* a payload without identifier, without credit sequence or without a
\* plain string in the sequence
Malformed(data) == "id" \notin DOMAIN data \/ PhrasesOf(data) = <<>>

\* ------------------------------------------------------------------------
\* Properties of the event specification
\* ------------------------------------------------------------------------
\* C1: a scrub of a track whose identifier has an entry removes the entry;
\* an identifier stays without entry until the next capture for it; and a
\* further scrub for such an identifier changes neither the track nor the
\* table and raises nothing.
C1_AtMostOnce ==
    [][ /\ \A id \in consumed' : ~DictHas(track_join_phrases', id)
        /\ ev'.op = "scrub" =>
              LET id == arg'.tracks[1].track_id
              IN  /\ DictHas(track_join_phrases, id)
                        => ~DictHas(track_join_phrases', id) /\ id \in consumed'
                  /\ id \in consumed
                        => /\ tracks' = arg'.tracks
                           /\ track_join_phrases' = track_join_phrases
                           /\ ~ev'.raised
        /\ (ev'.op = "albuminfo_received" /\ ~ev'.raised
              /\ cfg.drop_feats_from_fields # <<>>) =>
              \A i \in 1..Len(arg'.tracks) :
                  ~DictHas(track_join_phrases', arg'.tracks[i].track_id)
      ]_vars

\* C1 witness: a second scrub for "t1", whose entry an earlier scrub
\* consumed, has left the artist "a.b.a" as it was
C1_Witness ==
    /\ ev.op = "scrub"
    /\ ev.old = None
    /\ cfg.drop_feats_from_fields # <<>>
    /\ arg.tracks[1].track_id = "t1"
    /\ "t1" \in consumed
    /\ arg.tracks[1].artist = TextABA
    /\ tracks = arg.tracks

\* C2 (as claimed): a scrub for a track with a captured phrase leaves every
\* drop-list attribute that held a string cut before the first occurrence
\* of the phrase, and every other attribute unchanged.
C2_ScrubTruncates ==
    [][ (ev'.op = "scrub" /\ ev'.old # None) =>
            tracks'[1] = Truncated(arg'.tracks[1], cfg.drop_feats_from_fields,
                                   ev'.old)
      ]_vars

\* C3 (as claimed): when the mb_album_extract event of a release carried a
\* join phrase, the release record that arrives afterwards is cut before
\* that phrase in its drop-list attributes (and sanitized as usual).
C3_ReleaseFeatsDropped ==
    (ev.op = "albuminfo_received" /\ ~ev.raised) =>
        \A d \in album_extracts :
            (d["id"] = arg.info.album_id /\ PhrasesOf(d) # <<>>) =>
                info = ProcessObject(cfg, decoder,
                                     Truncated(arg.info,
                                               cfg.drop_feats_from_fields,
                                               PhrasesOf(d)[1].s))

\* C4 (as claimed): a scrub for a track with a captured phrase raises
\* nothing; a drop-list attribute that holds no string is left as it is and
\* the other drop-list attributes are cut.
C4_ScrubSkipsNonStrings ==
    [][ (/\ ev'.op = "scrub"
         /\ ev'.old # None
         /\ \E f \in Range(cfg.drop_feats_from_fields) \cap TextFields :
                f \in DOMAIN arg'.tracks[1] /\ ~IsStr(arg'.tracks[1][f])) =>
            /\ ~ev'.raised
            /\ tracks'[1] = Truncated(arg'.tracks[1],
                                      cfg.drop_feats_from_fields, ev'.old)
      ]_vars

\* C6: the table never holds two phrases for one identifier; a capture with
\* an identifier and a non-empty first phrase P leaves exactly P under that
\* identifier, whatever was stored before, and the other entries alone; and
\* a scrub that ends without error has cut the track at the stored phrase.
C6_LastWriteWins ==
    [][ /\ AtMostOnePhrase(track_join_phrases')
        /\ (/\ ev'.op = "mb_track_extract"
            /\ ~Malformed(arg'.data)
            /\ PhrasesOf(arg'.data)[1].s # <<>>) =>
              /\ {p \in track_join_phrases' : p[1] = arg'.data["id"]}
                    = {<<arg'.data["id"], PhrasesOf(arg'.data)[1].s>>}
              /\ {p \in track_join_phrases' : p[1] # arg'.data["id"]}
                    = {p \in track_join_phrases : p[1] # arg'.data["id"]}
        /\ (ev'.op = "scrub" /\ ~ev'.raised
              /\ DictHas(track_join_phrases, arg'.tracks[1].track_id)) =>
              \A p \in track_join_phrases :
                  p[1] = arg'.tracks[1].track_id =>
                      tracks'[1] = Truncated(arg'.tracks[1],
                                             cfg.drop_feats_from_fields, p[2])
      ]_vars

\* C6 witness: a capture of "b." for "t1" has replaced the "." stored before
C6_Witness ==
    /\ ev.op = "mb_track_extract"
    /\ ev.old = <<DOT>>
    /\ track_join_phrases = {<<"t1", <<LowerB, DOT>>>>}

\* C7: a capture with a payload that lacks the identifier, lacks the credit
\* sequence or has no plain string in it raises nothing and leaves the
\* table as it was.
C7_MalformedCaptureNoOp ==
    [][ (ev'.op = "mb_track_extract" /\ Malformed(arg'.data)) =>
            /\ track_join_phrases' = track_join_phrases
            /\ ~ev'.raised
      ]_vars

\* C7 witness: a payload with a phrase and no identifier has been handled
\* while the table held an entry, and the table holds nothing else
C7_Witness ==
    /\ ev.op = "mb_track_extract"
    /\ "id" \notin DOMAIN arg.data
    /\ PhrasesOf(arg.data) # <<>>
    /\ track_join_phrases = {<<"t1", <<LowerB, DOT>>>>}

\* C8: a scrub for a track whose identifier has no entry changes no
\* attribute of the track, leaves the table as it was and raises nothing.
C8_ScrubWithoutEntryNoOp ==
    [][ (ev'.op = "scrub"
           /\ ~DictHas(track_join_phrases, arg'.tracks[1].track_id)) =>
            /\ tracks' = arg'.tracks
            /\ track_join_phrases' = track_join_phrases
            /\ ~ev'.raised
      ]_vars

\* C8 witness: a scrub for "t1" without entry, whose artist holds the
\* phrase stored for "t2", with a drop list
C8_Witness ==
    /\ ev.op = "scrub"
    /\ ev.old = None
    /\ arg.tracks[1].track_id = "t1"
    /\ arg.tracks[1].artist = TextAB
    /\ tracks = arg.tracks
    /\ track_join_phrases = {<<"t2", <<DOT>>>>}
    /\ cfg.drop_feats_from_fields = <<"artist", "artist_sort", "title">>

\* ------------------------------------------------------------------------
\* Properties of _process_string
\* ------------------------------------------------------------------------
\* C5 (as claimed): without a decoder, a second pass over sanitized text
\* returns it unchanged, whatever the settings.
C5_Idempotent ==
    [][ ev'.op = "process_string_again" => str' = str ]_vars

\* a bracket string that the pipeline cannot disturb: not empty, free of
\* whitespace, and returned as it is by _process_string
StableBracket(c, b) ==
    /\ b # <<>>
    /\ \A i \in 1..Len(b) : ~IsSpace(b[i])
    /\ ProcessString(c, NoDecoder, b) = b

\* C5 (amended): without a decoder, with normalization mode "none" and
\* bracket strings that are not empty, hold no whitespace and are themselves
\* left unchanged by the pipeline (as the defaults "(" and ")" are), a
\* second pass over sanitized text returns it unchanged.
C5_IdempotentWithoutNormalization ==
    [][ (/\ ev'.op = "process_string_again"
         /\ decoder = NoDecoder
         /\ cfg.unicode_normalization_mode = "None"
         /\ StableBracket(cfg, cfg.left_bracket)
         /\ StableBracket(cfg, cfg.right_bracket)) => str' = str ]_vars

\* C5 witness: with every toggle on and no normalization, the second pass
\* has returned "a (" again, which the first pass made of
\* "a<ogham space><fullwidth left parenthesis>"
C5_Witness ==
    /\ ev.op = "process_string_again"
    /\ cfg.unicode_normalization_mode = "None"
    /\ cfg.simplify_whitespace /\ cfg.simplify_brackets
    /\ cfg.left_bracket = <<LPAREN>>
    /\ arg.str = <<LowerA, OGHAMSPACE, FWLPAREN>>
    /\ str = <<LowerA, SP, LPAREN>>

\* ------------------------------------------------------------------------
\* Properties of _get_decoder
\* ------------------------------------------------------------------------
\* the target a code stands for, NoValue for an unrecognized or absent code
TargetOf(code, han) ==
    CASE code = "Hani" -> han
      [] code \in JaCodes -> "ja"
      [] code \in KrCodes -> "kr"
      [] code \in VnCodes -> "vn"
      [] code \in ZhCodes -> "zh"
      [] OTHER -> NoValue

\* the target of a language and a script: the language's when it has one,
\* else the script's
ResolvedTarget(lang, script, han) ==
    IF TargetOf(lang, han) # NoValue THEN TargetOf(lang, han)
    ELSE TargetOf(script, han)

\* C9: _get_decoder returns a decoder exactly when the resolved target (the
\* language's mapping if the language is recognized, else the script's)
\* exists and is enabled, and the decoder is bound to that target; a
\* recognized language with a disabled target does not fall back to the
\* script.
C9_ResolverReference ==
    ev.op = "get_decoder" =>
        LET target == ResolvedTarget(arg.lang, arg.script, cfg.han_preference)
        IN  /\ (decoder # NoDecoder) <=>
                   (target # NoValue /\ target \in cfg.langs_enabled)
            /\ decoder # NoDecoder => decoder = [lang |-> target]

\* C9 witness: language "jpn" with "ja" disabled and script "Hang" with
\* "kr" enabled gives no decoder
C9_Witness ==
    /\ ev.op = "get_decoder"
    /\ arg.lang = "jpn"
    /\ arg.script = "Hang"
    /\ cfg.langs_enabled = {"kr"}
    /\ decoder = NoDecoder

\* C10: with no language and script "Hani" the decoder is bound to the han
\* preference when that is enabled, and there is none when it is not; for
\* codes other than "Hani" the result does not depend on the han preference.
C10_HanPreference ==
    ev.op = "get_decoder" =>
        /\ (arg.lang = NoValue /\ arg.script = "Hani") =>
               decoder = IF cfg.han_preference \in cfg.langs_enabled
                         THEN [lang |-> cfg.han_preference]
                         ELSE NoDecoder
        /\ ("Hani" \notin {arg.lang, arg.script}) =>
               \A h \in AVAILABLE_LANG_CODES :
                   decoder = GetDecoder([cfg EXCEPT !.han_preference = h],
                                        arg.lang, arg.script)

\* C10 witness: preference "kr", no language, script "Hani": a "kr" decoder
C10_Witness ==
    /\ ev.op = "get_decoder"
    /\ arg.lang = NoValue
    /\ arg.script = "Hani"
    /\ cfg.han_preference = "kr"
    /\ decoder = [lang |-> "kr"]

\* ------------------------------------------------------------------------
\* The sanitizer with and without a decoder
\* ------------------------------------------------------------------------
\* the text t without its leading and trailing whitespace, by position: from
\* the first character that is no whitespace to the last one
Trimmed(t) ==
    LET keep == {i \in 1..Len(t) : ~IsSpace(t[i])}
    IN  IF keep = {} THEN <<>>
        ELSE SubSeq(t, CHOOSE i \in keep : \A j \in keep : i <= j,
                       CHOOSE i \in keep : \A j \in keep : j <= i)

\* the settings with the four cleanup toggles off and no normalization
NoopSettings(c) ==
    /\ ~c.simplify_whitespace
    /\ ~c.simplify_hyphens
    /\ ~c.simplify_curly_quotes
    /\ ~c.simplify_brackets
    /\ c.unicode_normalization_mode = "None"

\* C11: with the four cleanup toggles off, no decoder and no normalization,
\* _process_string returns its argument trimmed, whatever the tidy toggle
\* and the bracket strings are
C11_NoopIsTrim ==
    (ev.op = "process_string" /\ NoopSettings(cfg) /\ decoder = NoDecoder)
        => str = Trimmed(arg.str)

\* a no-op call with the tidy toggle on and brackets ">" and "<", on a text
\* with a bracket, a lower-upper pair and whitespace at an end
C11_Witness ==
    /\ ev.op = "process_string"
    /\ NoopSettings(cfg)
    /\ decoder = NoDecoder
    /\ cfg.tidy_unihandecode
    /\ cfg.left_bracket = <<GT>>
    /\ arg.str = <<SP, FWLPAREN, TAB>>
    /\ str = <<FWLPAREN>>


\* C12: whatever the text, the settings and the decoder (or none), the text
\* _process_string returns neither begins nor ends with a whitespace
\* character
C12_TrimTotality ==
    ev.op = "process_string"
        => \/ str = <<>>
           \/ ~IsSpace(str[1]) /\ ~IsSpace(str[Len(str)])

\* a call with the Japanese decoder and the tidy toggle off, whose decoding
\* of the han character ends in a space that the result does not have
C12_Witness ==
    /\ ev.op = "process_string"
    /\ decoder = [lang |-> "ja"]
    /\ ~cfg.tidy_unihandecode
    /\ arg.str = <<TAB, HAN>>
    /\ str = <<UpperM, LowerE, LowerI>>


\* the stages of the pipeline, in the order the specification lists them
StageOrder ==
    <<"whitespace", "hyphens", "quotes", "brackets", "translit", "tidy",
      "normalize", "trim">>

\* whether the stage runs under the settings c with the decoder dec
StageEnabled(stage, c, dec) ==
    CASE stage = "whitespace" -> c.simplify_whitespace
      [] stage = "hyphens" -> c.simplify_hyphens
      [] stage = "quotes" -> c.simplify_curly_quotes
      [] stage = "brackets" -> c.simplify_brackets
      [] stage = "translit" -> dec # NoDecoder
      [] stage = "tidy" -> dec # NoDecoder /\ c.tidy_unihandecode
      [] stage = "normalize" -> c.unicode_normalization_mode # "None"
      [] stage = "trim" -> TRUE

\* what the stage makes of the text s
StageOutput(stage, c, dec, s) ==
    CASE stage = "whitespace" -> CollapseZ(s, FALSE)
      [] stage = "hyphens" -> SubClass(s, PdClass, <<HYPHEN>>)
      [] stage = "quotes" ->
            SubClass(SubClass(s, SingleQuotes, <<APOS>>),
                     DoubleQuotes \cup PiPfClass, <<DQUOTE>>)
      [] stage = "brackets" ->
            SubClass(SubClass(s, PsClass, c.left_bracket),
                     PeClass, c.right_bracket)
      [] stage = "translit" -> Decode(dec.lang, s)
      [] stage = "tidy" -> TidyPunct(TidyCase(s))
      [] stage = "normalize" ->
            SelectSeq(Normalize(c.unicode_normalization_mode, s),
                      LAMBDA ch : ~IsC(ch))
      [] stage = "trim" -> Trimmed(s)

RECURSIVE RunStages(_, _, _, _)
\* the stages of the list, each enabled one applied to the output of the
\* one before it
RunStages(stages, c, dec, s) ==
    IF stages = <<>> THEN s
    ELSE RunStages(Tail(stages), c, dec,
                   IF StageEnabled(Head(stages), c, dec)
                   THEN StageOutput(Head(stages), c, dec, s)
                   ELSE s)

\* C13: _process_string is the composition of its enabled stages in the
\* order whitespace, hyphens, quotes, brackets, transliteration, tidy-up,
\* normal form with deletion of the other-characters, trim; without a
\* decoder the tidy toggle does not change the result
C13_PipelineOrder ==
    ev.op = "process_string"
        => /\ str = RunStages(StageOrder, cfg, decoder, arg.str)
           /\ decoder = NoDecoder
                => str = RunStages(StageOrder,
                                   [cfg EXCEPT !.tidy_unihandecode = ~@],
                                   decoder, arg.str)

\* a call with every stage enabled on a han character in brackets: the
\* fullwidth bracket is replaced, the han character spelled with a space
\* after it, and the tidy-up takes that space away before the bracket
C13_Witness ==
    /\ ev.op = "process_string"
    /\ decoder = [lang |-> "ja"]
    /\ cfg.tidy_unihandecode
    /\ cfg.simplify_brackets
    /\ cfg.left_bracket = <<GT>>
    /\ cfg.unicode_normalization_mode = "NFKC"
    /\ arg.str = <<FWLPAREN, HAN, COMMA>>
    /\ str = <<GT, UpperM, LowerE, LowerI, COMMA>>


\* ------------------------------------------------------------------------
\* The field processor
\* ------------------------------------------------------------------------
\* the elements of the sequence q that satisfy Keep, in their order
KeptFields(q, Keep(_)) == SelectSeq(q, Keep)

\* the record after as the field processor must leave the record before:
\* the same attributes; a configured attribute holding a text holds the
\* sanitized text, every other attribute its value
Processed(c, dec, before, after) ==
    /\ DOMAIN after = DOMAIN before
    /\ \A f \in DOMAIN before :
          after[f] = IF f \in Range(c.process_fields) /\ IsStr(before[f])
                     THEN ProcessString(c, dec, before[f])
                     ELSE before[f]

\* the configured attributes of the record that hold a text which the
\* sanitizer changes, in the configured order
Changing(c, dec, before) ==
    KeptFields(c.process_fields,
               LAMBDA f : /\ f \in DOMAIN before
                          /\ IsStr(before[f])
                          /\ ProcessString(c, dec, before[f]) # before[f])

\* C14: after a release arrival in which no scrub raised, the release
\* record is the record handed in with every configured text attribute
\* sanitized and nothing else changed or created, and exactly the attributes
\* whose sanitized text differs were set; the same holds of each track when
\* the drop list is empty (no scrub runs before the field processor)
C14_FieldProcessorFrame ==
    (ev.op = "albuminfo_received" /\ ~ev.raised)
        => /\ Processed(cfg, decoder, arg.info, info)
           /\ written.info = Changing(cfg, decoder, arg.info)
           /\ cfg.drop_feats_from_fields = <<>>
                => /\ Len(tracks) = Len(arg.tracks)
                   /\ Len(written.tracks) = Len(arg.tracks)
                   /\ \A i \in 1..Len(arg.tracks) :
                         /\ Processed(cfg, decoder, arg.tracks[i], tracks[i])
                         /\ written.tracks[i]
                               = Changing(cfg, decoder, arg.tracks[i])

\* a release arrival with an empty drop list and the Japanese decoder: the
\* first track has no artist_sort value and is not touched, the second one
\* has its han title spelled out and nothing but the title set
C14_Witness ==
    /\ ev.op = "albuminfo_received"
    /\ ~ev.raised
    /\ cfg.drop_feats_from_fields = <<>>
    /\ decoder = [lang |-> "ja"]
    /\ Len(arg.tracks) = 2
    /\ "artist_sort" \in DOMAIN arg.tracks[1]
    /\ arg.tracks[1].artist_sort = None
    /\ tracks[1] = arg.tracks[1]
    /\ written.tracks[1] = <<>>
    /\ "artist_sort" \notin DOMAIN arg.tracks[2]
    /\ arg.tracks[2].title = TextHan
    /\ tracks[2].title = <<LowerA, SP, UpperM, LowerE, LowerI>>
    /\ tracks[2].artist = arg.tracks[2].artist
    /\ written.tracks[2] = <<"title">>
    /\ info.album = TextHan


\* ------------------------------------------------------------------------
\* The cleanup toggles one at a time
\* ------------------------------------------------------------------------
\* the cleanup toggles that are on
TogglesOn(c) ==
    {n \in {"whitespace", "hyphens", "quotes", "brackets"} :
        CASE n = "whitespace" -> c.simplify_whitespace
          [] n = "hyphens" -> c.simplify_hyphens
          [] n = "quotes" -> c.simplify_curly_quotes
          [] n = "brackets" -> c.simplify_brackets}

\* what the toggle must put in the place of the character ch
ReplacementOf(toggle, c, ch) ==
    CASE toggle = "hyphens" /\ Cat(ch) = "Pd" -> <<HYPHEN>>
      [] toggle = "quotes" /\ ch \in {GRAVE, ACUTE, LSQUOTE, RSQUOTE} -> <<APOS>>
      [] toggle = "quotes" /\ ch \notin {GRAVE, ACUTE, LSQUOTE, RSQUOTE}
            /\ (ch \in {LDQUOTE, RDQUOTE} \/ Cat(ch) \in {"Pi", "Pf"}) -> <<DQUOTE>>
      [] toggle = "brackets" /\ Cat(ch) = "Ps" -> c.left_bracket
      [] toggle = "brackets" /\ Cat(ch) = "Pe" -> c.right_bracket
      [] OTHER -> <<ch>>

RECURSIVE ReplacedFrom(_, _, _, _)
\* the text t from its i-th character on with each character replaced as
\* the toggle demands; of a run of separators the whitespace toggle keeps
\* one ASCII space
ReplacedFrom(toggle, c, t, i) ==
    IF i > Len(t) THEN <<>>
    ELSE (IF toggle = "whitespace" /\ IsZ(t[i])
          THEN (IF i > 1 /\ IsZ(t[i - 1]) THEN <<>> ELSE <<SP>>)
          ELSE ReplacementOf(toggle, c, t[i]))
         \o ReplacedFrom(toggle, c, t, i + 1)

\* C15: with exactly one cleanup toggle on, no decoder and no normalization,
\* _process_string returns (trimmed) the text in which the characters of
\* that toggle's category are replaced - separators by one space, dashes by
\* "-", the listed single quotes by "'", the double quotes and the other
\* initial and final punctuation by '"', open and close punctuation by the
\* configured left and right bracket strings - and every other character is
\* the one of the argument
C15_SingleToggleIsolation ==
    (/\ ev.op = "process_string"
     /\ decoder = NoDecoder
     /\ cfg.unicode_normalization_mode = "None"
     /\ Cardinality(TogglesOn(cfg)) = 1)
        => \A toggle \in TogglesOn(cfg) :
              str = Trimmed(ReplacedFrom(toggle, cfg, arg.str, 1))


\* ------------------------------------------------------------------------
\* Normal form and other-characters
\* ------------------------------------------------------------------------
\* the stages before the normal form
StagesBeforeNormalize == SubSeq(StageOrder, 1, 6)

\* C16: with a normalization mode configured the text _process_string
\* returns holds no other-character (control, format, surrogate,
\* unassigned); with the mode None it is the trimmed output of the stages
\* before, other-characters included
C16_OtherCharDeletion ==
    ev.op = "process_string"
        => IF cfg.unicode_normalization_mode # "None"
           THEN \A i \in 1..Len(str) : ~IsC(str[i])
           ELSE str = Trimmed(RunStages(StagesBeforeNormalize, cfg, decoder,
                                        arg.str))

\* a call under NFC on a text with a noncharacter and a tab between two
\* letters, both gone from the result
C16_Witness ==
    /\ ev.op = "process_string"
    /\ cfg.unicode_normalization_mode = "NFC"
    /\ ~cfg.simplify_whitespace
    /\ arg.str = <<LowerA, NONCHAR, TAB>>
    /\ str = <<LowerA>>
    /\ ProcessString([cfg EXCEPT !.unicode_normalization_mode = "None"],
                     decoder, <<NONCHAR, TAB, LowerA>>) = <<NONCHAR, TAB, LowerA>>


\* ------------------------------------------------------------------------
\* The release arrival
\* ------------------------------------------------------------------------
\* the record with every configured attribute that holds a text sanitized
Sanitized(c, dec, rec) ==
    [f \in DOMAIN rec |->
        IF f \in Range(c.process_fields) /\ IsStr(rec[f])
        THEN ProcessString(c, dec, rec[f]) ELSE rec[f]]

RECURSIVE ArrivedTracks(_, _, _, _, _)
\* what a release arrival must make of the tracks ts from the i-th on and
\* of the table: track after track, the scrub first (with a drop list, for
\* an identifier with an entry: the track cut at the phrase, the entry
\* removed), the field processor on what the scrub left
ArrivedTracks(c, dec, table, ts, i) ==
    IF i > Len(ts) THEN [tracks |-> ts, table |-> table]
    ELSE LET id == ts[i].track_id
             scrubs == c.drop_feats_from_fields # <<>> /\ id \in Keys(table)
             cut == IF scrubs
                    THEN Truncated(ts[i], c.drop_feats_from_fields,
                                   Lookup(table, id))
                    ELSE ts[i]
         IN  ArrivedTracks(c, dec,
                           IF scrubs THEN {e \in table : e[1] # id} ELSE table,
                           [ts EXCEPT ![i] = Sanitized(c, dec, cut)],
                           i + 1)

\* C17 (as claimed): a release arrival resolves one decoder from the
\* language and script of the release; handles the tracks in their order,
\* each one scrubbed and then sanitized with that decoder; sanitizes the
\* release record with the same decoder and does nothing else to it; and
\* with an empty drop list removes no entry of the table.
C17_ReleaseArrivalOrder ==
    [][ ev'.op = "albuminfo_received" =>
            LET a == arg'.info
                dec == GetDecoder(cfg, a.language, a.script)
                exp == ArrivedTracks(cfg, dec, track_join_phrases,
                                     arg'.tracks, 1)
            IN  /\ decoder' = dec
                /\ tracks' = exp.tracks
                /\ track_join_phrases' = exp.table
                /\ info' = Sanitized(cfg, dec, a)
                /\ cfg.drop_feats_from_fields = <<>>
                      => track_join_phrases' = track_join_phrases
      ]_vars


\* ------------------------------------------------------------------------
\* The arrival of a track record
\* ------------------------------------------------------------------------
\* C18: the trackinfo_received event changes no attribute of the track it
\* is handed and leaves the table of join phrases as it was, with or without
\* an index on the track; for a track with an index it changes nothing of
\* the plugin's state; so the entry of a recording stays when its track
\* arrives on its own
C18_TrackArrivalFrame ==
    [][ ev'.op = "trackinfo_received" =>
            /\ tracks' = arg'.tracks
            /\ ~ev'.raised
            /\ track_join_phrases' = track_join_phrases
            /\ consumed' = consumed
            /\ arg'.tracks[1].index # NoIndex
                  => pending_tracks' = pending_tracks
            /\ \A e \in pending_tracks' \ pending_tracks :
                  e[2] = arg'.tracks[1]
      ]_vars

\* the track of "t1" has arrived on its own (no index) while the table
\* holds the phrase "." for "t1": its artist is still "a.b", the entry is
\* still there and the record is stored as it came
C18_Witness ==
    /\ ev.op = "trackinfo_received"
    /\ ev.old = <<DOT>>
    /\ arg.tracks[1].track_id = "t1"
    /\ arg.tracks[1].index = NoIndex
    /\ cfg.drop_feats_from_fields # <<>>
    /\ tracks[1].artist = TextAB
    /\ <<"t1", <<DOT>>>> \in track_join_phrases
    /\ <<"t1", arg.tracks[1]>> \in pending_tracks


\* ------------------------------------------------------------------------
\* The life of an entry of the table of join phrases
\* ------------------------------------------------------------------------
\* the first join phrase of the payload, None without one
FirstPhrase(data) ==
    IF PhrasesOf(data) = <<>> THEN None ELSE PhrasesOf(data)[1].s

\* C19: the entry of an identifier appears or changes only by an
\* mb_track_extract event whose payload has that identifier and a join
\* phrase, which is the phrase stored; it disappears only by the scrub of a
\* track with that identifier, in a release arrival with a drop list (or in
\* a call of the scrub by itself); every other step leaves it as it was
C19_EntryLifecycle ==
    [][ \A id \in TrackIds \cup Keys(track_join_phrases)
                           \cup Keys(track_join_phrases') :
          LET before == Lookup(track_join_phrases, id)
              after == Lookup(track_join_phrases', id)
          IN  /\ (after # before /\ after # None) =>
                    /\ ev'.op = "mb_track_extract"
                    /\ "id" \in DOMAIN arg'.data
                    /\ arg'.data["id"] = id
                    /\ FirstPhrase(arg'.data) = after
              /\ (after # before /\ after = None) =>
                    \/ /\ ev'.op = "albuminfo_received"
                       /\ cfg.drop_feats_from_fields # <<>>
                       /\ \E i \in 1..Len(arg'.tracks) :
                             arg'.tracks[i].track_id = id
                    \/ /\ ev'.op = "scrub"
                       /\ arg'.tracks[1].track_id = id
      ]_vars

\* a release arrival whose only track is the one of "t1" has removed the
\* entry of "t1" and left the entry of "t2"
C19_Witness ==
    /\ ev.op = "albuminfo_received"
    /\ cfg.drop_feats_from_fields # <<>>
    /\ Len(arg.tracks) = 1
    /\ arg.tracks[1].track_id = "t1"
    /\ "t1" \in consumed
    /\ Keys(track_join_phrases) = {"t2"}


\* C20: every phrase the table holds is a text that is not empty; an
\* mb_track_extract event whose first plain string is empty stores
\* nothing, whatever strings follow it
C20_PhrasesNonEmpty ==
    [][ /\ \A e \in track_join_phrases' : IsStr(e[2]) /\ e[2] # <<>>
        /\ (ev'.op = "mb_track_extract" /\ FirstPhrase(arg'.data) = <<>>)
              => track_join_phrases' = track_join_phrases
      ]_vars

\* an mb_track_extract event for "t1" whose credit sequence holds an empty
\* string and then ".", after which the table has no entry for "t1"
C20_Witness ==
    /\ ev.op = "mb_track_extract"
    /\ "id" \in DOMAIN arg.data
    /\ arg.data["id"] = "t1"
    /\ FirstPhrase(arg.data) = <<>>
    /\ Len(PhrasesOf(arg.data)) = 2
    /\ PhrasesOf(arg.data)[2].s = <<DOT>>
    /\ "t1" \notin Keys(track_join_phrases)


====
